---- MODULE Spec2Model ----
(***************************************************************************)
(* Soni Zi Creations API: the product and order endpoints of src/main.py   *)
(* over a document store.  req is the bag of the requests being served,    *)
(* one per busy worker thread; every step of a request is one store        *)
(* operation together with the handler code that follows it up to the next *)
(* store operation, so that requests served by different worker threads    *)
(* interleave between store operations.  last is the response that has     *)
(* just left a handler, until the server has sent it.                      *)
(*                                                                         *)
(* Values are tagged ([t |-> tag, v |-> payload]) the way Python values    *)
(* carry their type.  Money is counted in mills (1/1000 of a currency      *)
(* unit): 1499.0 is 1499000.  Text is a TLA+ string, except the text of an *)
(* object id ("product_id", "id"), which is the sequence of its            *)
(* characters so that it can be formatted and parsed.                      *)
(***************************************************************************)
EXTENDS Integers, Sequences, FiniteSets, Bags, TLC

VARIABLES product, order, nextOid, req, last

vars == <<product, order, nextOid, req, last>>

(* ------------------------------ bounds --------------------------------- *)

\* products that POST /api/products may insert
MaxCreated == 1
\* orders that POST /api/orders may insert
MaxOrders == 1
\* items of a checkout payload
MaxItems == 3
\* object ids the store may hand out
MaxOid == 16

\* the worker threads that serve requests
Workers == {"w1", "w2"}

(* ------------------------------ values --------------------------------- *)

None == [t |-> "none"]
Str(s) == [t |-> "str", v |-> s]
Num(n) == [t |-> "num", v |-> n]
Bool(b) == [t |-> "bool", v |-> b]
List(l) == [t |-> "list", v |-> l]
Oid(n) == [t |-> "oid", v |-> n]
Date(n) == [t |-> "datetime", v |-> n]

\* Python truth value of a tagged value
Truthy(x) ==
  CASE x.t = "none" -> FALSE
    [] x.t = "str" -> Len(x.v) > 0
    [] x.t = "num" -> x.v # 0
    [] x.t = "bool" -> x.v
    [] x.t = "list" -> Len(x.v) > 0
    [] OTHER -> TRUE

\* the absent document (find_one's None)
NoDoc == [k \in {} |-> None]

IsDoc(d) == DOMAIN d # {}

(* --------------------------- object ids -------------------------------- *)

HexChars == <<"0", "1", "2", "3", "4", "5", "6", "7",
              "8", "9", "a", "b", "c", "d", "e", "f">>
UpperHex == <<"0", "1", "2", "3", "4", "5", "6", "7",
              "8", "9", "A", "B", "C", "D", "E", "F">>

IsHexChar(c) == \E k \in 1..16 : HexChars[k] = c \/ UpperHex[k] = c

HexVal(c) == (CHOOSE k \in 1..16 : HexChars[k] = c \/ UpperHex[k] = c) - 1

RECURSIVE ToHex(_, _)
ToHex(n, w) ==
  IF w = 0 THEN <<>> ELSE Append(ToHex(n \div 16, w - 1), HexChars[(n % 16) + 1])

\* the number written by the first n hex digits of s
RECURSIVE FromHexPrefix(_, _)
FromHexPrefix(s, n) ==
  IF n = 0 THEN 0 ELSE 16 * FromHexPrefix(s, n - 1) + HexVal(s[n])

FromHex(s) == FromHexPrefix(s, Len(s))

\* the texts of the object ids the store hands out, formatted once
OidText == [n \in 1..MaxOid |-> ToHex(n, 24)]

\* str(ObjectId): 24 lower-case hex digits
OidStr(o) == Str(OidText[o.v])

\* ObjectId.is_valid on a text value
ObjectIdIsValid(x) ==
  /\ x.t = "str"
  /\ Len(x.v) = 24
  /\ \A i \in 1..Len(x.v) : IsHexChar(x.v[i])

\* ObjectId(text)
ObjectIdOf(x) == Oid(FromHex(x.v))

\* PyObjectId.validate: [ok, value]; not ok is the ValueError
PyObjectId_validate(x) ==
  IF x.t = "oid" THEN [ok |-> TRUE, value |-> x]
  ELSE IF ~ObjectIdIsValid(x) THEN [ok |-> FALSE, value |-> None]
  ELSE [ok |-> TRUE, value |-> ObjectIdOf(x)]

(* ---------------------------- the store -------------------------------- *)

EmptyFilter == [k \in {} |-> None]

Matches(d, f) == \A k \in DOMAIN f : k \in DOMAIN d /\ d[k] = f[k]

\* collection.find(filter): the matching documents in stored order
Find(coll, f) ==
  LET Test(d) == Matches(d, f) IN SelectSeq(coll, Test)

\* collection.find_one(filter)
FindOne(coll, f) ==
  LET hits == Find(coll, f) IN IF hits = <<>> THEN NoDoc ELSE hits[1]

\* collection.count_documents({})
CountDocuments(coll) == Len(coll)

\* a document with one more field
With(d, k, x) == [f \in DOMAIN d \cup {k} |-> IF f = k THEN x ELSE d[f]]

\* a document without a field
Without(d, k) == [f \in DOMAIN d \ {k} |-> d[f]]

\* collection.insert_one(doc): the store generates the _id
InsertOne(coll, d, oid) == Append(coll, With(d, "_id", Oid(oid)))

\* collection.insert_many(docs): ids oid, oid+1, ...
InsertMany(coll, docs, oid) ==
  coll \o [i \in 1..Len(docs) |-> With(docs[i], "_id", Oid(oid + i - 1))]

\* database.get_documents(collection, filter)
get_documents(coll, f) == Find(coll, f)

\* database.create_document: the dumped record, stamped, ready for insert_one
create_document_record(data, now) ==
  With(With(data, "created_at", Date(now)), "updated_at", Date(now))

(* -------------------------- serialization ------------------------------ *)

\* datetime.isoformat()
IsoFormat(x) == [t |-> "str", v |-> <<"iso", x.v>>]

HasIsoFormat(x) == x.t = "datetime"

\* a RenameId that copies the id and leaves "_id" in the document
RenameIdKeeping(doc) ==
  IF "_id" \in DOMAIN doc /\ Truthy(doc["_id"])
  THEN With(doc, "id", OidStr(doc["_id"]))
  ELSE doc

\* main.py 39-40: doc["id"] = str(doc.pop("_id"))
RenameId(doc) ==
  IF "_id" \in DOMAIN doc /\ Truthy(doc["_id"])
  THEN With(Without(doc, "_id"), "id", OidStr(doc["_id"]))
  ELSE doc

serialize_doc(doc) ==
  IF ~IsDoc(doc) THEN doc
  ELSE LET d == RenameId(doc)
       IN [k \in DOMAIN d |-> IF HasIsoFormat(d[k]) THEN IsoFormat(d[k]) ELSE d[k]]

SerializeAll(docs) == [i \in 1..Len(docs) |-> serialize_doc(docs[i])]

(* ------------------------------ schemas -------------------------------- *)

\* schemas.Product: price >= 0, stock_qty >= 0
Product_valid(p) == p.price.v >= 0 /\ p.stock_qty.v >= 0

\* schemas.OrderItem: quantity >= 1
OrderItem_valid(it) == it.quantity.v >= 1

\* CheckoutPayload: every item is an OrderItem
CheckoutPayload_valid(p) ==
  \A i \in 1..Len(p.items.v) : OrderItem_valid(p.items.v[i])

\* an Order that is born paid
OrderPaid(payload, subtotal, total) ==
  [customer_name |-> payload.customer_name,
   customer_email |-> payload.customer_email,
   customer_phone |-> payload.customer_phone,
   shipping_address |-> payload.shipping_address,
   items |-> payload.items,
   subtotal |-> Num(subtotal),
   total |-> Num(total),
   status |-> Str("paid")]

\* schemas.Order(...).model_dump(): status defaults to "pending"
Order(payload, subtotal, total) ==
  [customer_name |-> payload.customer_name,
   customer_email |-> payload.customer_email,
   customer_phone |-> payload.customer_phone,
   shipping_address |-> payload.shipping_address,
   items |-> payload.items,
   subtotal |-> Num(subtotal),
   total |-> Num(total),
   status |-> Str("pending")]

(* --------------------------- request inputs ---------------------------- *)

ProductPayload(title, price, category) ==
  [title |-> Str(title), description |-> None, price |-> Num(price),
   category |-> Str(category), in_stock |-> Bool(TRUE),
   stock_qty |-> Num(10), image |-> None]

\* bodies of POST /api/products; the last one fails validation (price < 0)
ProductPayloads ==
  { ProductPayload("Brass Pin", 3, "Bags"),
    ProductPayload("Broken", -1, "Bags") }

OrderItem(pid, q) == [product_id |-> pid, quantity |-> Num(q)]

\* product_id texts: the two ids the store hands out first, and a text that is
\* no object id
PidA == Str(ToHex(1, 24))
PidB == Str(ToHex(2, 24))
PidBad == Str(<<"a", "b", "c">>)

\* the items a payload is made of
ItemChoices == { OrderItem(PidA, 2), OrderItem(PidB, 1) }

\* carts of up to MaxItems lines that alternate between two different items
ItemLists ==
  { [i \in 1..n |-> IF i % 2 = 1 THEN ab[1] ELSE ab[2]] :
      n \in 0..MaxItems,
      ab \in {p \in ItemChoices \X ItemChoices : p[1] # p[2]} }

CheckoutPayload(items) ==
  [customer_name |-> Str("Asha"), customer_email |-> Str("a@x"),
   customer_phone |-> None, shipping_address |-> Str("12 Hill Rd"),
   items |-> List(items)]

\* bodies of POST /api/orders: the carts, the lists with a product_id that is
\* no object id (first, after another item), and one that fails validation
\* (quantity < 1)
CheckoutPayloads ==
  { CheckoutPayload(items) : items \in ItemLists }
    \cup { CheckoutPayload(<<OrderItem(PidBad, 1)>>),
           CheckoutPayload(<<OrderItem(PidA, 2), OrderItem(PidBad, 1)>>),
           CheckoutPayload(<<OrderItem(PidA, 0)>>) }

\* ?category= : omitted, empty, or a text
CategoryChoices == { None, Str(""), Str("Bags") }

\* ?email= : omitted, or a text
EmailChoices == { None, Str("a@x") }

(* ------------------------------ requests ------------------------------- *)

IdleSlot ==
  [kind |-> "none", pc |-> "idle", arg |-> None, i |-> 0, subtotal |-> 0,
   new_id |-> None, wrote |-> {}, at |-> "idle", status |-> 0,
   body |-> <<>>, detail |-> "", inserted |-> 0, seen |-> 0]

\* a request takes a step once the latest response has been sent
Sent == last.pc = "idle"

\* a worker is idle and takes the next request
Free == Sent /\ BagCardinality(req) < Cardinality(Workers)

InFlight == BagToSet(req)

Start(kind, arg, pc) == [IdleSlot EXCEPT !.kind = kind, !.arg = arg, !.pc = pc, !.at = pc]

\* the response leaves the handler
Answer(s, status, body, detail) ==
  [s EXCEPT !.at = s.pc, !.pc = "done", !.status = status, !.body = body,
            !.detail = detail]

\* except Exception as e: raise HTTPException(status_code=500, detail=str(e))
Answer500(s, detail) == Answer(s, 500, <<>>, detail)

Docs(coll) == {coll[i] : i \in 1..Len(coll)}

\* the ids of the documents a step inserts, changes or removes
Touched ==
  LET changed == (Docs(product') \ Docs(product)) \cup (Docs(product) \ Docs(product'))
                   \cup (Docs(order') \ Docs(order)) \cup (Docs(order) \ Docs(order'))
  IN {d["_id"].v : d \in changed}

\* the first step of an arriving request leaves it as s: an answered request
\* frees its worker and its response becomes the latest response
Begin(s) ==
  LET t == [s EXCEPT !.wrote = Touched]
  IN IF t.pc = "done"
     THEN last' = t /\ UNCHANGED req
     ELSE req' = req (+) SetToBag({t}) /\ UNCHANGED last

\* a step of the request in flight as s0 leaves it as s
Step(s0, s) ==
  LET t == [s EXCEPT !.wrote = s0.wrote \cup Touched]
  IN IF t.pc = "done"
     THEN req' = req (-) SetToBag({s0}) /\ last' = t
     ELSE req' = (req (-) SetToBag({s0})) (+) SetToBag({t}) /\ UNCHANGED last

Init ==
  /\ product = <<>>
  /\ order = <<>>
  /\ nextOid = 1
  /\ req = EmptyBag
  /\ last = IdleSlot

(* ------------------------- GET /api/products --------------------------- *)

\* filter_q = {"category": category} if category else {}
CategoryFilter(category) ==
  IF Truthy(category) THEN [k \in {"category"} |-> category] ELSE EmptyFilter

list_products(category) ==
  /\ Free
  /\ UNCHANGED <<product, order, nextOid>>
  /\ \E up \in BOOLEAN :
       LET s == Start("list_products", category, "lp_find")
       IN Begin(IF up
                THEN Answer(s, 200,
                            SerializeAll(get_documents(product, CategoryFilter(category))),
                            "")
                ELSE Answer500(s, "PersistenceError"))

(* ------------------------- POST /api/products -------------------------- *)

\* products in the collection that came from POST /api/products
CreatedCount ==
  Cardinality({i \in 1..Len(product) : "created_at" \in DOMAIN product[i]})

\* the request arrives; new_id = create_document("product", product)
create_product(p) ==
  /\ Free
  /\ IF ~Product_valid(p)
     THEN /\ UNCHANGED <<product, order, nextOid>>
          /\ Begin(Answer(Start("create_product", p, "validate"), 422, <<>>,
                          "ValidationError"))
     ELSE \E up \in BOOLEAN :
            LET s == Start("create_product", p, "cp_insert")
            IN IF up
               THEN /\ CreatedCount < MaxCreated
                    /\ product' = InsertOne(product, create_document_record(p, nextOid),
                                            nextOid)
                    /\ nextOid' = nextOid + 1
                    /\ UNCHANGED order
                    /\ Begin([s EXCEPT !.pc = "cp_read",
                                       !.new_id = OidStr(Oid(nextOid))])
               ELSE /\ UNCHANGED <<product, order, nextOid>>
                    /\ Begin(Answer500(s, "PersistenceError"))

\* doc = db["product"].find_one({"_id": ObjectId(new_id)}); return serialize_doc(doc)
create_product_read(s) ==
  /\ Sent
  /\ s \in InFlight
  /\ s.kind = "create_product"
  /\ s.pc = "cp_read"
  /\ UNCHANGED <<product, order, nextOid>>
  /\ \E up \in BOOLEAN :
       Step(s, IF up
               THEN Answer(s, 201,
                           <<serialize_doc(
                               FindOne(product,
                                       [k \in {"_id"} |-> ObjectIdOf(s.new_id)]))>>,
                           "")
               ELSE Answer500(s, "PersistenceError"))

(* -------------------------- POST /api/orders --------------------------- *)

\* float(prod.get("price", 0))
PriceOf(prod) == IF "price" \in DOMAIN prod THEN prod["price"].v ELSE 0

\* a LineTotal that forgets the quantity
LineTotalNoQuantity(prod, item) == PriceOf(prod)

\* float(prod.get("price", 0)) * item.quantity
LineTotal(prod, item) == PriceOf(prod) * item.quantity.v

\* round(x, 2) on an amount in mills: the nearest cent, a tie to the even cent
Round2(x) ==
  LET q == x \div 10
      m == x % 10
  IN IF m < 5 THEN 10 * q
     ELSE IF m > 5 THEN 10 * (q + 1)
     ELSE IF q % 2 = 0 THEN 10 * q ELSE 10 * (q + 1)

\* checkouts that have not inserted their order yet
PendingCheckouts ==
  LET P == {s \in InFlight : s.kind = "create_order" /\ s.pc = "co_loop"}
  IN BagCardinality([s \in P |-> req[s]])

\* a create_order that stores a draft of the order before the totals are computed
create_order_draft_first(payload) ==
  /\ Free
  /\ IF CheckoutPayload_valid(payload)
     THEN /\ Len(order) + PendingCheckouts < MaxOrders
          /\ order' = InsertOne(order, create_document_record(Order(payload, 0, 0), nextOid),
                                nextOid)
          /\ nextOid' = nextOid + 1
          /\ UNCHANGED product
          /\ Begin([Start("create_order", payload, "co_loop") EXCEPT
                      !.i = 1, !.subtotal = 0])
     ELSE /\ UNCHANGED <<product, order, nextOid>>
          /\ Begin(Answer(Start("create_order", payload, "validate"), 422, <<>>,
                          "ValidationError"))

\* the request arrives: payload validated, subtotal = 0.0
create_order(payload) ==
  /\ Free
  /\ UNCHANGED <<product, order, nextOid>>
  /\ IF CheckoutPayload_valid(payload)
     THEN /\ Len(order) + PendingCheckouts < MaxOrders
          /\ Begin([Start("create_order", payload, "co_loop") EXCEPT
                      !.i = 1, !.subtotal = 0])
     ELSE Begin(Answer(Start("create_order", payload, "validate"), 422, <<>>,
                       "ValidationError"))

\* one pass of the loop over payload.items
create_order_lookup(s) ==
  LET item == s.arg.items.v[s.i]
      id == PyObjectId_validate(item.product_id)
  IN /\ Sent
     /\ s \in InFlight
     /\ s.kind = "create_order"
     /\ s.pc = "co_loop"
     /\ s.i <= Len(s.arg.items.v)
     /\ UNCHANGED <<product, order, nextOid>>
     /\ IF ~id.ok
        THEN Step(s, Answer500(s, "Invalid ObjectId"))
        ELSE \E up \in BOOLEAN :
               LET prod == FindOne(product, [k \in {"_id"} |-> id.value])
               IN Step(s, IF ~up THEN Answer500(s, "PersistenceError")
                          ELSE IF ~IsDoc(prod)
                          THEN Answer(s, 404, <<>>, "Product not found")
                          ELSE [s EXCEPT !.subtotal = @ + LineTotal(prod, item),
                                         !.i = @ + 1])

\* order = Order(...); new_id = create_document("order", order)
create_order_insert(s) ==
  /\ Sent
  /\ s \in InFlight
  /\ s.kind = "create_order"
  /\ s.pc = "co_loop"
  /\ s.i > Len(s.arg.items.v)
  /\ \E up \in BOOLEAN :
       IF up
       THEN /\ order' = InsertOne(order,
                                  create_document_record(
                                    Order(s.arg, Round2(s.subtotal), Round2(s.subtotal)),
                                    nextOid),
                                  nextOid)
            /\ nextOid' = nextOid + 1
            /\ UNCHANGED product
            /\ Step(s, [s EXCEPT !.pc = "co_read", !.new_id = OidStr(Oid(nextOid))])
       ELSE /\ UNCHANGED <<product, order, nextOid>>
            /\ Step(s, Answer500([s EXCEPT !.pc = "co_insert"], "PersistenceError"))

\* doc = db["order"].find_one({"_id": ObjectId(new_id)}); return serialize_doc(doc)
create_order_read(s) ==
  /\ Sent
  /\ s \in InFlight
  /\ s.kind = "create_order"
  /\ s.pc = "co_read"
  /\ UNCHANGED <<product, order, nextOid>>
  /\ \E up \in BOOLEAN :
       Step(s, IF up
               THEN Answer(s, 201,
                           <<serialize_doc(
                               FindOne(order,
                                       [k \in {"_id"} |-> ObjectIdOf(s.new_id)]))>>,
                           "")
               ELSE Answer500(s, "PersistenceError"))

(* --------------------------- GET /api/orders --------------------------- *)

\* q = {"customer_email": email} if email else {}
EmailFilter(email) ==
  IF Truthy(email) THEN [k \in {"customer_email"} |-> email] ELSE EmptyFilter

list_orders(email) ==
  /\ Free
  /\ UNCHANGED <<product, order, nextOid>>
  /\ \E up \in BOOLEAN :
       LET s == Start("list_orders", email, "lo_find")
       IN Begin(IF up
                THEN Answer(s, 200,
                            SerializeAll(get_documents(order, EmailFilter(email))), "")
                ELSE Answer500(s, "PersistenceError"))

(* ---------------------------- POST /api/seed --------------------------- *)

SampleProduct(title, description, price, category, qty, image) ==
  [title |-> Str(title), description |-> Str(description), price |-> Num(price),
   category |-> Str(category), in_stock |-> Bool(TRUE), stock_qty |-> Num(qty),
   image |-> Str(image)]

sample_products ==
  << SampleProduct("Handcrafted Silk Scarf", "Premium silk scarf with elegant patterns",
                   1499000, "Accessories", 25, "photo-1520975693411-b40e8f1de1e5"),
     SampleProduct("Artisanal Pottery Vase", "Handmade ceramic vase with glaze finish",
                   2299000, "Home Decor", 12, "photo-1519710164239-da123dc03ef4"),
     SampleProduct("Embroidered Tote Bag", "Canvas tote with traditional embroidery",
                   999000, "Bags", 40, "photo-1553062407-98eeb64c6a62") >>

\* an AlreadySeeded that lets a collection of one product be seeded
AlreadySeededOffByOne(count) == count > 1

\* if db["product"].count_documents({}) > 0: return {"message": "Products already exist"}
AlreadySeeded(count) == count > 0

\* the request arrives; db["product"].count_documents({})
seed_products ==
  /\ Free
  /\ UNCHANGED <<product, order, nextOid>>
  /\ \E up \in BOOLEAN :
       LET s == [Start("seed_products", None, "seed_count") EXCEPT
                   !.seen = IF up THEN CountDocuments(product) ELSE 0]
       IN Begin(IF ~up THEN Answer500(s, "PersistenceError")
                ELSE IF AlreadySeeded(s.seen)
                THEN Answer(s, 201, <<>>, "Products already exist")
                ELSE [s EXCEPT !.pc = "seed_insert"])

\* a SeedInsertMany that replaces the collection by the demo set
SeedReplaceAll(coll, oid) == InsertMany(<<>>, sample_products, oid)

\* the collection after db["product"].insert_many(sample_products)
SeedInsertMany(coll, oid) == InsertMany(coll, sample_products, oid)

\* inserted = db["product"].insert_many(sample_products)
\* return {"inserted": len(inserted.inserted_ids)}
seed_products_insert(s) ==
  /\ Sent
  /\ s \in InFlight
  /\ s.kind = "seed_products"
  /\ s.pc = "seed_insert"
  /\ \E up \in BOOLEAN :
       IF up
       THEN /\ product' = SeedInsertMany(product, nextOid)
            /\ nextOid' = nextOid + Len(sample_products)
            /\ UNCHANGED order
            /\ Step(s, [Answer(s, 201, <<>>, "inserted") EXCEPT
                          !.inserted = Len(sample_products)])
       ELSE /\ UNCHANGED <<product, order, nextOid>>
            /\ Step(s, Answer500(s, "PersistenceError"))

(* --------------------------- specification ----------------------------- *)

\* the server sends the latest response to its client
send_response ==
  /\ ~Sent
  /\ last' = IdleSlot
  /\ UNCHANGED <<product, order, nextOid, req>>

Next ==
  \/ send_response
  \/ \E c \in CategoryChoices : list_products(c)
  \/ \E p \in ProductPayloads : create_product(p)
  \/ \E s \in InFlight : create_product_read(s)
  \/ \E p \in CheckoutPayloads : create_order(p)
  \/ \E s \in InFlight : create_order_lookup(s)
  \/ \E s \in InFlight : create_order_insert(s)
  \/ \E s \in InFlight : create_order_read(s)
  \/ \E e \in EmailChoices : list_orders(e)
  \/ seed_products
  \/ \E s \in InFlight : seed_products_insert(s)

Spec == Init /\ [][Next]_vars

(* ------------------------------ claims --------------------------------- *)

\* the stored product whose id has the text pid (the absent document if none)
ProductWithId(pid) ==
  LET hits == {d \in Docs(product) : OidText[d["_id"].v] = pid.v}
  IN IF hits = {} THEN NoDoc ELSE CHOOSE d \in hits : TRUE

Resolves(item) == \E d \in Docs(product) : OidText[d["_id"].v] = item.product_id.v

\* the sum over all items of price(item.product_id) * item.quantity
RECURSIVE SumOfItems(_)
SumOfItems(items) ==
  IF items = <<>> THEN 0
  ELSE ProductWithId(Head(items).product_id)["price"].v * Head(items).quantity.v
         + SumOfItems(Tail(items))

\* t is x rounded to 2 decimal places: a whole number of cents, nearest to x
IsRounded2(t, x) == t % 10 = 0 /\ 2 * (t - x) <= 10 /\ 2 * (x - t) <= 10

AnsweredOrder == last.kind = "create_order" /\ last.pc = "done"

\* C1: every stored order, and the order document a successful checkout
\* returns, has total = subtotal = round(sum of price * quantity over all the
\* items of the payload, 2), with a product counted once for each item that
\* references it
C1_OrderTotal ==
  /\ \A o \in Docs(order) :
       /\ \A i \in 1..Len(o.items.v) : Resolves(o.items.v[i])
       /\ o.total = o.subtotal
       /\ \A sum \in {SumOfItems(o.items.v)} : IsRounded2(o.total.v, sum)
  /\ AnsweredOrder /\ last.status = 201 =>
       /\ Len(last.body) = 1
       /\ last.body[1].items = last.arg.items
       /\ last.body[1].total = last.body[1].subtotal
       /\ \A sum \in {SumOfItems(last.arg.items.v)} :
            IsRounded2(last.body[1].total.v, sum)

\* an order of three items of which the first and the last reference the same
\* product (the created product at 3 mills, two each time; between them one
\* seeded product at 1499.0), whose sum is not a whole number of cents
C1_Witness ==
  \E o \in Docs(order) :
    /\ Len(o.items.v) = 3
    /\ o.items.v[1].product_id = o.items.v[3].product_id
    /\ o.items.v[1].product_id # o.items.v[2].product_id
    /\ SumOfItems(o.items.v) = 1499012
    /\ o.total.v = 1499010

\* C2: a checkout that is answered 404 or 500 from inside the loop over the
\* items (a product that is missing, a product_id that is no object id, the
\* store failing during a lookup) has inserted, changed and removed no document
C2_FailedCheckoutWritesNothing ==
  (AnsweredOrder /\ last.at = "co_loop" /\ last.status \in {404, 500})
    => last.wrote = {}

\* a checkout answered 404 at its second item, after a first item that resolved
C2_Witness ==
  /\ AnsweredOrder
  /\ last.status = 404
  /\ last.i = 2
  /\ last.subtotal > 0
  /\ last.wrote = {}

\* C3 as claimed: when the store answers every lookup, a checkout with an
\* item whose product_id resolves to no stored product is answered 404, and
\* 201 is answered only when every item resolves
C3_UnresolvedIs404 ==
  (AnsweredOrder /\ last.status # 422 /\ last.detail # "PersistenceError") =>
    /\ (\E i \in 1..Len(last.arg.items.v) : ~Resolves(last.arg.items.v[i]))
         => last.status = 404
    /\ last.status = 201
         => \A i \in 1..Len(last.arg.items.v) : Resolves(last.arg.items.v[i])

AnsweredSeed == last.kind = "seed_products" /\ last.pc = "done"

\* the documents of the product collection with an id in ids, without their ids
ProductsWritten(ids) == {Without(d, "_id") : d \in {e \in Docs(product) : e["_id"].v \in ids}}

\* C4: a seed call that finds the product collection non-empty answers
\* "Products already exist" and inserts, changes and removes nothing; a seed
\* call goes on to insert only when it found the collection empty, and then
\* it inserts exactly the 3 demo products and reports 3
C4_SeedIdempotent ==
  /\ \A s \in InFlight :
       s.kind = "seed_products" => s.pc = "seed_insert" /\ s.seen = 0 /\ s.wrote = {}
  /\ AnsweredSeed /\ last.status = 201 =>
       IF last.seen > 0
       THEN /\ last.detail = "Products already exist"
            /\ last.inserted = 0
            /\ last.wrote = {}
       ELSE /\ last.detail = "inserted"
            /\ last.inserted = 3
            /\ Cardinality(last.wrote) = 3
            /\ ProductsWritten(last.wrote) = {sample_products[i] : i \in 1..3}
  /\ AnsweredSeed /\ last.status = 500 => last.wrote = {}

\* a seed call that is a no-op after a seed call and a create-product call
C4_Witness ==
  /\ AnsweredSeed
  /\ last.status = 201
  /\ last.seen = 4
  /\ last.wrote = {}
  /\ Len(product) = 4

\* C5: every document an endpoint returns (list products, create product,
\* create order, list orders) has "id" and has no "_id"; its "id" is the text
\* of the _id of a stored document, and every other field is that document's
\* field, a time-valued field as text
C5_ReturnedDocuments ==
  (last.pc = "done" /\ last.status \in {200, 201}
     /\ last.kind \in {"list_products", "create_product", "create_order", "list_orders"})
  => \A doc \in Docs(last.body) :
       /\ "id" \in DOMAIN doc
       /\ "_id" \notin DOMAIN doc
       /\ \E d \in Docs(product) \cup Docs(order) :
            /\ doc["id"].t = "str"
            /\ doc["id"].v = OidText[d["_id"].v]
            /\ DOMAIN doc = (DOMAIN d \ {"_id"}) \cup {"id"}
            /\ \A k \in DOMAIN d \ {"_id"} :
                 IF d[k].t = "datetime"
                 THEN doc[k].t = "str" /\ doc[k].v = <<"iso", d[k].v>>
                 ELSE doc[k] = d[k]

\* a product list of the demo set and a created product, which has timestamps
C5_Witness ==
  /\ last.kind = "list_products"
  /\ last.status = 200
  /\ Len(last.body) = 4
  /\ \E i \in 1..4 : "created_at" \in DOMAIN last.body[i]

\* C6 as claimed: a product list with category = c supplied returns exactly
\* the stored products whose category is c; with the parameter omitted, all
C6_CategoryFilterExact ==
  (last.kind = "list_products" /\ last.status = 200) =>
    {doc["id"] : doc \in Docs(last.body)}
      = {OidStr(d["_id"]) :
           d \in {e \in Docs(product) : last.arg.t = "none" \/ e["category"] = last.arg}}

\* C7: no step removes a product or changes a field of a product: the product
\* collection only grows at its end
C7_ProductsImmutable ==
  [][ /\ Len(product') >= Len(product)
      /\ \A i \in 1..Len(product) : product'[i] = product[i] ]_vars

\* a checkout has stored an order with a total, and a product was created after
\* the demo set was seeded
C7_Witness ==
  /\ Len(product) = 4
  /\ "created_at" \in DOMAIN product[4]
  /\ \E o \in Docs(order) : o.total.v > 0

\* C8 as claimed: a checkout or create-product request that is answered 500
\* has left no document in the store
C8_NoRecordAfter500 ==
  (last.pc = "done" /\ last.status = 500
     /\ last.kind \in {"create_order", "create_product"})
  => last.wrote = {}

\* C9 as claimed: however seed requests interleave, the collection holds at
\* most one copy of the demo set
C9_OneDemoSet ==
  Cardinality({i \in 1..Len(product) : product[i].title = sample_products[1].title}) <= 1

====
